---- MODULE Spec2Model ----
(***************************************************************************)
(* A model of the two scripts of HalphaImaging:                            *)
(*   python3/getzp.py           the photometric zero-point (ZP) tool       *)
(*   python3/plot_cutouts_ha.py the multi-survey cutout tool               *)
(*                                                                         *)
(* Units.  Magnitudes are integers in milli-magnitudes (0.001 mag), sky    *)
(* positions are integers in arcseconds along one axis, CLASS_STAR is in   *)
(* hundredths.  A fitted zero-point is an exact fraction [n, d] of         *)
(* milli-magnitudes.  File names are tuples of one-character strings so    *)
(* that find/split/concatenation are computed, not assumed.                *)
(***************************************************************************)
EXTENDS Integers, Sequences, FiniteSets, TLC

VARIABLES
    \* ---- ZP tool (getzp.py) ----
    args,           \* the parsed command line (argparse namespace)
    world,          \* what the outside holds: the sky seen by SE and Pan-STARRS
    pc,             \* control point of __main__ / getzp.getzp
    calls,          \* the stage methods getzp.getzp() has invoked, in order
    fs,             \* the file system: a function from existing names to contents
    image,          \* self.image
    seCalls,        \* the Source Extractor command lines run by os.system
    secat,          \* self.secat
    field,          \* self.centerRA (doubled) and self.radius
    panCalls,       \* the Pan-STARRS queries issued
    pan,            \* self.pan
    index,          \* match_coords' nearest-detection index of each source
    matchflag,      \* self.matchflag
    matchedarray1,  \* self.matchedarray1
    fitflag,        \* self.fitflag
    R,              \* self.R
    x, y, yerr,     \* the local arrays of fitzp's clipping loop
    flag,           \* the clip mask computed by the last iteration
    t,              \* the result of the last curve_fit call
    fits,           \* every curve_fit result of the run, in order
    bestc,          \* self.bestc
    delta,          \* the convergence measure of the loop
    zp, zperr,      \* self.zp, self.zperr
    out,            \* the ZP line printed by __main__
    \* ---- cutout tool (plot_cutouts_ha.py) ----
    cargs,          \* the parsed command line: the --r argument
    remote,         \* what the surveys return and which local files exist
    cpc,            \* control point of __main__ / cutouts.runall
    run,            \* the number of the current run of the tool
    ccalls,         \* the methods runall() has invoked in this run, in order
    cache,          \* the files under cutouts/ and galex/: key -> content
    reqs,           \* every download request issued, in order
    opened,         \* the local FITS products fits.getdata was asked for
    self,           \* the attributes of the cutouts object
    figures         \* the figure files written

inputs    == <<args, world>>
sevars    == <<seCalls, secat, field>>
panvars   == <<panCalls, pan>>
matchvars == <<index, matchflag, matchedarray1, fitflag, R>>
loopvars  == <<x, y, yerr, flag, t, fits, bestc, delta>>
resvars   == <<zp, zperr, out>>

zpvars == <<inputs, pc, calls, fs, image, sevars, panvars, matchvars, loopvars,
            resvars>>

cutvars == <<cargs, remote, cpc, run, ccalls, cache, reqs, opened, self, figures>>

vars == <<zpvars, cutvars>>

None == "None"     \* Python None where the other values are strings
Nil  == <<>>       \* an unset attribute; Some(v) is a set optional value
Some(v) == <<v>>

(***************************************************************************)
(* Generic helpers                                                         *)
(***************************************************************************)
Abs(a) == IF a < 0 THEN -a ELSE a

RECURSIVE SumSeq(_)
SumSeq(s) == IF s = <<>> THEN 0 ELSE Head(s) + SumSeq(Tail(s))

RECURSIVE ProdSeq(_)
ProdSeq(s) == IF s = <<>> THEN 1 ELSE Head(s) * ProdSeq(Tail(s))

RECURSIVE SeqsUpTo(_, _)
\* all sequences over S of length 1..n
SeqsUpTo(S, n) == IF n = 0 THEN {} ELSE SeqsUpTo(S, n - 1) \cup [1..n -> S]

\* numpy boolean-mask indexing a[mask]: the entries whose mask is TRUE, in order
RECURSIVE MaskSelect(_, _)
MaskSelect(a, mask) ==
    IF a = <<>> THEN <<>>
    ELSE IF Head(mask) THEN <<Head(a)>> \o MaskSelect(Tail(a), Tail(mask))
         ELSE MaskSelect(Tail(a), Tail(mask))

\* sum(flag) of a boolean array
CountTrue(mask) == Cardinality({i \in DOMAIN mask : mask[i]})

\* twice numpy.median of a non-empty integer array (the mean of the two middle
\* values when the length is even)
Median2(a) ==
    LET srt == SortSeq(a, <)
        n == Len(a)
    IN IF n % 2 = 1 THEN 2 * srt[(n + 1) \div 2]
       ELSE srt[n \div 2] + srt[n \div 2 + 1]

(***************************************************************************)
(* Python str operations on names (tuples of one-character strings)        *)
(***************************************************************************)
\* str.find(sub): the lowest 0-based index where sub occurs in s, or -1
Find(s, sub) ==
    LET hits == {i \in 0..(Len(s) - Len(sub)) :
                    SubSeq(s, i + 1, i + Len(sub)) = sub}
    IN IF hits = {} THEN -1
       ELSE CHOOSE i \in hits : \A j \in hits : i <= j

\* str.split(sep)[0]: the text before the first occurrence of sep, or all of
\* s when sep does not occur
SplitHead(s, sep) ==
    LET i == Find(s, sep)
    IN IF i = -1 THEN s ELSE SubSeq(s, 1, i)

DotFits == <<".", "f", "i", "t", "s">>
DotCat  == <<".", "c", "a", "t">>

(***************************************************************************)
(* Exact fractions [n, d] with d > 0                                       *)
(***************************************************************************)
Frac(n, d) == [n |-> n, d |-> d]
FracAbsDiff(a, b) == Frac(Abs(a.n * b.d - b.n * a.d), a.d * b.d)
\* a > k for an integer k
FracGt(a, k) == a.n > k * a.d

(***************************************************************************)
(* Program constants                                                       *)
(***************************************************************************)
pixelscale      == 43       \* 0.43 arcsec per pixel, in hundredths
MatchRadius     == 5        \* dist2d.degree < 5./3600 : 5 arcsec
RmagMin         == 9000     \* self.pan['rmag'] > 9.
FlagsMax        == 5        \* matchedarray1['FLAGS'] < 5
QualMax         == 64       \* self.pan['Qual'] < 64
ClassStarMin    == 95       \* matchedarray1['CLASS_STAR'] > 0.95
KeepX0          == 1000     \* self.keepsection = [1000,5000,0,4000]
KeepX1          == 5000
KeepY0          == 0
KeepY1          == 4000
SaturADU        == 4000000  \* ADUlimit = 4000000./float(expt)
Tol             == 1        \* while delta > 1.e-3 (one milli-magnitude)
DeltaInit       == 100000   \* delta = 100.
MadScale100     == 148      \* MAD = 1.48*np.median(...), in hundredths
MinPoints       == 2        \* if sum(flag) < 2: sys.exit()
VegaToAB        == 210      \* -1.*self.bestc[1]+.21
FluxZpJy        == 3631     \* header.set('FLUXZPJY',float(3631))
LambUm          == 6442     \* header.set('LAMB(um)',float(.6442)), in 1e-4 um
NsigmaDefault   == 2        \* nsigma = 2.
NaperDefault    == 5        \* naper = 5

(***************************************************************************)
(* Inputs: command lines and worlds                                        *)
(***************************************************************************)
MaxN   == 3     \* most points of a generated fit sample
MaxPan == 3     \* most Pan-STARRS sources of a generated catalog pair
MaxSE  == 2     \* most Source Extractor detections of a generated catalog pair

ImageName == <<"a">> \o DotFits

\* --fwhm is a string of arcsec; seeing values are kept in 1/200 arcsec
UserFwhm == 300

ArgsAll ==
    [image : {ImageName}, instrument : {"h", "i", None}, filter : {"R", "r"},
     fwhm : {Nil, Some(UserFwhm)}, nexptime : BOOLEAN, fitonly : BOOLEAN,
     useri : BOOLEAN, nsigma : {NsigmaDefault}]

ArgsUsage ==
    [image |-> ImageName, instrument |-> "h", filter |-> "r", fwhm |-> Nil,
     nexptime |-> TRUE, fitonly |-> FALSE, useri |-> FALSE,
     nsigma |-> NsigmaDefault]

\* a Pan-STARRS source and a Source Extractor detection
MkStar(pos, rmag, qual) ==
    [pos |-> pos, rmag |-> rmag, gmag |-> rmag + 500, imag |-> rmag - 500,
     Qual |-> qual]
MkDet(pos, flags, cls, ximg, mag, magerr) ==
    [pos |-> pos, FLAGS |-> flags, CLASS_STAR |-> cls, X_IMAGE |-> ximg,
     Y_IMAGE |-> 2000, MAG_APER |-> mag, MAGERR_APER |-> magerr,
     FWHM_IMAGE |-> 4]

MkWorld(exptime, stars, dets) ==
    [exptime |-> exptime, pix |-> 4000, stars |-> stars, dets |-> dets]

\* a world whose i-th source is a clean star detected in place with
\* Pan-STARRS r minus instrumental magnitude pts[i].e and error pts[i].s
FitWorld(exptime, pts) ==
    MkWorld(exptime,
            [i \in DOMAIN pts |-> MkStar(10 * i, 15000, 0)],
            [i \in DOMAIN pts |->
                MkDet(10 * i, 0, 99, 2000, 15000 - pts[i].e, pts[i].s)])

FitPoints == [e : {0, 1, 4, 40}, s : {1, 2}]
WorldsFit == {FitWorld(100, pts) : pts \in SeqsUpTo(FitPoints, MaxN)}

StarKinds ==
    << MkStar(0, 15000, 0), MkStar(2, 15020, 0), MkStar(10, 8000, 64),
       MkStar(50, 18000, 0) >>
DetKinds ==
    << MkDet(0, 0, 99, 2000, 14990, 1), MkDet(1, 4, 99, 500, 14980, 1),
       MkDet(10, 0, 50, 2000, 14970, 2), MkDet(52, 0, 99, 3000, 17989, 1) >>

RECURSIVE Catalogs(_, _)
\* the catalogs of 1..n rows drawn from kinds, listed in the order of kinds
Catalogs(kinds, n) ==
    IF n = 0 THEN {}
    ELSE Catalogs(kinds, n - 1) \cup
         {[i \in 1..n |-> kinds[f[i]]] :
            f \in {g \in [1..n -> DOMAIN kinds] :
                     \A i \in 1..(n - 1) : g[i] <= g[i + 1]}}

WorldsMatch ==
    {MkWorld(100, st, dt) : st \in Catalogs(StarKinds, MaxPan),
                            dt \in Catalogs(DetKinds, MaxSE)}

\* w with the i-th detection's FWHM_IMAGE (pixels) set to f[i]
WithFwhm(w, f) ==
    [w EXCEPT !.dets = [i \in DOMAIN w.dets |->
                           [w.dets[i] EXCEPT !.FWHM_IMAGE = f[i]]]]

\* the FWHM_IMAGE columns tried: uniform, all zero, and unequal values
FwhmKinds == {<<4, 4, 4>>, <<0, 0, 0>>, <<3, 10, 5>>}

WorldsBasic ==
    { WithFwhm(FitWorld(ex, pts), fw) : ex \in {100, 200}, fw \in FwhmKinds,
        pts \in { <<[e |-> 10, s |-> 1], [e |-> 11, s |-> 1], [e |-> 14, s |-> 2]>>,
                  <<[e |-> 10, s |-> 1], [e |-> 12, s |-> 1]>>,
                  <<[e |-> 10, s |-> 1]>> } }

\* the cutout tool is not running
CutIdle ==
    /\ cargs = Nil /\ remote = Nil /\ cpc = "idle" /\ run = 0 /\ ccalls = <<>>
    /\ cache = <<>> /\ reqs = <<>> /\ opened = <<>> /\ self = Nil
    /\ figures = {}

HeaderKeys == {"EXPTIME", "PHOTZP", "PHOTSYS", "FLUXZPJY", "LAMB(um)"}

\* the FITS image on disk before the run
InputImage(w) ==
    [kind |-> "image", data |-> Frac(w.pix, 1),
     header |-> [k \in HeaderKeys |-> IF k = "EXPTIME" THEN Some(w.exptime) ELSE Nil]]

InitInputs ==
    \/ args \in ArgsAll /\ world \in WorldsBasic
    \/ args \in {ArgsUsage, [ArgsUsage EXCEPT !.instrument = "i"]}
         /\ world \in WorldsMatch
    \/ args \in {[ArgsUsage EXCEPT !.nsigma = n] : n \in {1, 2}}
         /\ world \in WorldsFit

Init ==
    /\ InitInputs
    /\ pc = "main"
    /\ calls = <<>>
    /\ fs = (args.image :> InputImage(world))
    /\ image = Nil
    /\ seCalls = <<>>
    /\ secat = Nil
    /\ field = Nil
    /\ panCalls = <<>>
    /\ pan = Nil
    /\ index = Nil
    /\ matchflag = Nil
    /\ matchedarray1 = Nil
    /\ fitflag = Nil
    /\ R = Nil
    /\ x = Nil /\ y = Nil /\ yerr = Nil
    /\ flag = Nil
    /\ t = Nil
    /\ fits = <<>>
    /\ bestc = Nil
    /\ delta = Nil
    /\ zp = Nil /\ zperr = Nil
    /\ out = Nil
    /\ CutIdle

\* fits.writeto(name, data, header, overwrite=True)
WriteTo(files, name, data, header) ==
    (name :> [kind |-> "image", data |-> data, header |-> header]) @@ files

(***************************************************************************)
(* __main__ and getzp.__init__                                             *)
(***************************************************************************)
\* mutant: the object keeps working on the input image
ImageFor_Input(a) == a.image

\* self.image: 'n'+image when the input is in ADU (norm_exptime False)
ImageFor(a) == IF ~a.nexptime THEN <<"n">> \o a.image ELSE a.image

Construct ==
    /\ pc = "main"
    /\ IF ~args.nexptime
         THEN LET f == fs[args.image]
                  norm_im == Frac(f.data.n, f.data.d * f.header["EXPTIME"][1])
              IN fs' = WriteTo(fs, <<"n">> \o args.image, norm_im, f.header)
         ELSE fs' = fs
    /\ image' = ImageFor(args)
    /\ pc' = "runse"
    /\ UNCHANGED <<inputs, calls, sevars, panvars, matchvars, loopvars, resvars, cutvars>>

(***************************************************************************)
(* getzp.getzp: the order of the stage methods                             *)
(***************************************************************************)
\* mutant: getzp() returns after fitzp without calling update_header
AfterStage_SkipsHeader(stage) ==
    CASE stage = "runse"         -> "get_panstarrs"
      [] stage = "get_panstarrs" -> "match_coords"
      [] stage = "match_coords"  -> "fitzp"
      [] stage = "fitzp"         -> "print"
      [] stage = "update_header" -> "print"

\* the control point reached when stage returns
AfterStage(stage) ==
    CASE stage = "runse"         -> "get_panstarrs"
      [] stage = "get_panstarrs" -> "match_coords"
      [] stage = "match_coords"  -> "fitzp"
      [] stage = "fitzp"         -> "update_header"
      [] stage = "update_header" -> "print"

(***************************************************************************)
(* getzp.runse                                                             *)
(***************************************************************************)
\* the catalog Source Extractor writes for a command line
SECatalog(w, cmd) == w.dets

\* ADUlimit = 4000000./float(expt)
ADUlimit(expt) == SaturADU \div expt

\* 'sex <image> -c <defaultcat> -CATALOG_NAME <froot>.cat -MAG_ZEROPOINT 0
\*  -SATUR_LEVEL <ADUlimit> [-SEEING_FWHM <fwhm>]'
SexCommand(img, expt, seeing) ==
    [image |-> img, catalog |-> SplitHead(img, DotFits) \o DotCat,
     satur |-> ADUlimit(expt), seeing |-> seeing]

\* np.median(self.secat['FWHM_IMAGE'])*pixelscale, in 1/200 arcsec
MeasuredFwhm(cat) ==
    Median2([i \in DOMAIN cat |-> cat[i].FWHM_IMAGE]) * pixelscale

\* mutant: one pass only, with whatever --fwhm holds
SexCommands_OnePass(a, img, expt, w) == <<SexCommand(img, expt, a.fwhm)>>

\* the command lines of one runse call: two passes without --fwhm, else one
SexCommands(a, img, expt, w) ==
    IF a.fwhm = Nil
      THEN LET first == SexCommand(img, expt, Nil)
           IN <<first,
                SexCommand(img, expt, Some(MeasuredFwhm(SECatalog(w, first))))>>
      ELSE <<SexCommand(img, expt, a.fwhm)>>

MinOf(S) == CHOOSE m \in S : \A k \in S : m <= k
MaxOf(S) == CHOOSE m \in S : \A k \in S : m >= k

\* self.centerRA (doubled, to stay integral) and self.radius
FieldOf(cat) ==
    LET ps == {cat[i].pos : i \in DOMAIN cat}
    IN [center2 |-> MinOf(ps) + MaxOf(ps), radius |-> MaxOf(ps) - MinOf(ps)]

RunSE ==
    /\ pc = "runse"
    /\ calls' = Append(calls, "runse")
    /\ IF args.instrument \notin {"h", "i", "m"}
         THEN \* defaultcat is never bound: NameError when the command is built
              /\ pc' = "crash"
              /\ UNCHANGED <<fs, sevars>>
         ELSE LET expt == fs[image].header["EXPTIME"][1]
                  cmds == SexCommands(args, image, expt, world)
                  last == cmds[Len(cmds)]
                  cat  == SECatalog(world, last)
              IN /\ seCalls' = seCalls \o cmds
                 /\ fs' = (last.catalog :>
                             [kind |-> "catalog", rows |-> cat, by |-> last]) @@ fs
                 /\ secat' = cat
                 /\ field' = FieldOf(cat)
                 /\ pc' = AfterStage("runse")
    /\ UNCHANGED <<inputs, image, panvars, matchvars, loopvars, resvars, cutvars>>

(***************************************************************************)
(* getzp.get_panstarrs / panstarrs_query                                   *)
(***************************************************************************)
MaxMag == 20000     \* maxmag=20 : column filter gmag < 20

\* the sources of a box of width rad around the centre, brighter than maxmag
PanQuery(w, fld) ==
    LET keep == [i \in DOMAIN w.stars |->
                    /\ Abs(2 * w.stars[i].pos - fld.center2) <= fld.radius
                    /\ w.stars[i].gmag < MaxMag]
    IN MaskSelect(w.stars, keep)

GetPanstarrs ==
    /\ pc = "get_panstarrs"
    /\ calls' = Append(calls, "get_panstarrs")
    /\ panCalls' = Append(panCalls, field)
    /\ LET res == PanQuery(world, field)
       IN IF res = <<>>
            THEN \* query_region(...)[0] on an empty result: IndexError
                 /\ pc' = "crash"
                 /\ pan' = pan
            ELSE /\ pan' = res
                 /\ pc' = AfterStage("get_panstarrs")
    /\ UNCHANGED <<inputs, fs, image, sevars, matchvars, loopvars, resvars, cutvars>>

(***************************************************************************)
(* getzp.match_coords                                                      *)
(***************************************************************************)
\* angular separation of two positions, in arcsec
Sep(a, b) == Abs(a - b)

\* match_to_catalog_sky: the detections nearest to source p
Nearest(p, cat) ==
    {j \in DOMAIN cat :
        \A k \in DOMAIN cat : Sep(p.pos, cat[j].pos) <= Sep(p.pos, cat[k].pos)}

\* mutant: every nearest detection counts as a match, however far
MatchFlag_All(p, cat, idx) == [i \in DOMAIN p |-> TRUE]

\* dist2d.degree < 5./3600
MatchFlag(p, cat, idx) ==
    [i \in DOMAIN p |-> Sep(p[i].pos, cat[idx[i]].pos) < MatchRadius]

\* a row of np.zeros(..., dtype=self.secat.dtype)
ZeroDet == [f \in DOMAIN MkDet(0, 0, 0, 0, 0, 0) |-> 0]

\* zeros(len(pancoords)) with the matched rows filled in
MatchedArray(p, cat, idx, mflag) ==
    [i \in DOMAIN p |->
        IF mflag[i] THEN cat[idx[i]] ELSE ZeroDet]

GoodArea(m) ==
    /\ m.X_IMAGE > KeepX0
    /\ m.X_IMAGE < KeepX1
    /\ m.Y_IMAGE > KeepY0
    /\ m.Y_IMAGE < KeepY1

\* mutant: the selection is computed on the matched rows only
FitFlag_MatchedOnly(p, marr, mflag, instrument) ==
    MaskSelect([i \in DOMAIN p |->
                   /\ p[i].rmag > RmagMin
                   /\ marr[i].FLAGS < FlagsMax
                   /\ p[i].Qual < QualMax
                   /\ marr[i].CLASS_STAR > ClassStarMin
                   /\ (instrument = "i" => GoodArea(marr[i]))], mflag)

FitFlag(p, marr, mflag, instrument) ==
    [i \in DOMAIN p |->
        /\ mflag[i]
        /\ p[i].rmag > RmagMin
        /\ marr[i].FLAGS < FlagsMax
        /\ p[i].Qual < QualMax
        /\ marr[i].CLASS_STAR > ClassStarMin
        /\ (instrument = "i" => GoodArea(marr[i]))]

\* Johnson R from Pan-STARRS r (milli-mag; the colours used are multiples of
\* 500, so the products divide exactly)
RMag(p, filter, useri) ==
    [i \in DOMAIN p |->
        IF filter = "R"
          THEN IF useri
                 THEN p[i].rmag - (166 * (p[i].rmag - p[i].imag)) \div 1000 - 275
                 ELSE p[i].rmag - (142 * (p[i].gmag - p[i].rmag)) \div 1000 - 142
          ELSE p[i].rmag]

MatchCoords ==
    /\ pc = "match_coords"
    /\ calls' = Append(calls, "match_coords")
    /\ \E idx \in [DOMAIN pan -> DOMAIN secat] :
          /\ \A i \in DOMAIN pan : idx[i] \in Nearest(pan[i], secat)
          /\ index' = idx
          /\ matchflag' = MatchFlag(pan, secat, idx)
          /\ matchedarray1' = MatchedArray(pan, secat, idx, matchflag')
          /\ fitflag' = FitFlag(pan, matchedarray1', matchflag', args.instrument)
    /\ R' = RMag(pan, args.filter, args.useri)
    /\ pc' = AfterStage("match_coords")
    /\ UNCHANGED <<inputs, fs, image, sevars, panvars, loopvars, resvars, cutvars>>

(***************************************************************************)
(* scipy.optimize.curve_fit(zpfunc, x, y, sigma=yerr)                      *)
(***************************************************************************)
Inf == Frac(1, 0)   \* numpy inf

RECURSIVE GCD(_, _)
GCD(a, b) == IF b = 0 THEN a ELSE GCD(b, a % b)

RECURSIVE LcmSeq(_)
LcmSeq(s) ==
    IF s = <<>> THEN 1
    ELSE LET r == LcmSeq(Tail(s)) IN (Head(s) * r) \div GCD(Head(s), r)

\* The least-squares solution of y = x + zp with weights 1/sigma^2:
\*   popt = sum(w*(y-x))/sum(w),  pcov = sum(w*r^2)/((n-1)*sum(w)),
\* and pcov = inf when there are no degrees of freedom.  The weights are
\* scaled by lcm(sigma)^2 to stay integral; both results are scale-free.
CurveFit(xs, ys, errs) ==
    LET L   == LcmSeq(errs)
        w   == [i \in DOMAIN xs |-> (L \div errs[i]) * (L \div errs[i])]
        W   == SumSeq(w)
        S   == SumSeq([i \in DOMAIN xs |-> w[i] * (ys[i] - xs[i])])
        chi == SumSeq([i \in DOMAIN xs |->
                        w[i] * (W * (ys[i] - xs[i]) - S) * (W * (ys[i] - xs[i]) - S)])
        n   == Len(xs)
    IN [popt |-> Frac(S, W),
        pcov |-> IF n > 1 THEN Frac(chi, W * W * W * (n - 1)) ELSE Inf,
        npts |-> n]

\* largest r with r*r <= v, by bisection on lo..hi
RECURSIVE ISqrtIn(_, _, _)
ISqrtIn(v, lo, hi) ==
    IF lo >= hi THEN lo
    ELSE LET mid == (lo + hi + 1) \div 2
         IN IF mid * mid <= v THEN ISqrtIn(v, mid, hi) ELSE ISqrtIn(v, lo, mid - 1)

ISqrt(v) == ISqrtIn(v, 0, 46340)

\* np.sqrt of a covariance, to a tenth of a milli-magnitude (rounded down)
SqrtCov(cov) ==
    IF cov.d = 0 THEN Inf ELSE Frac(ISqrt((100 * cov.n) \div cov.d), 10)

(***************************************************************************)
(* getzp.fitzp                                                             *)
(***************************************************************************)
\* mutant: the slope is taken from a free fit (the replaced np.polyfit call)
FitCoeffs_FreeSlope(fit) == <<2, fit.popt>>

\* c = np.array([1., t[0][0]]) : slope and intercept in polyfit's order
FitCoeffs(fit) == <<1, fit.popt>>

\* np.polyval(c, x) - y as numerators over the denominator of c[2]
Residual(c, xs, ys) ==
    [i \in DOMAIN xs |-> c[1] * xs[i] * c[2].d + c[2].n - ys[i] * c[2].d]

\* flag = abs(residual - median(residual)) < nsigma*MAD with
\* MAD = 1.48*median(abs(residual - median(residual)))
ClipMask(residual, nsigma) ==
    LET med2 == Median2(residual)
        dev2 == [i \in DOMAIN residual |-> Abs(2 * residual[i] - med2)]
        mad2 == Median2(dev2)
    IN [i \in DOMAIN residual |-> 200 * dev2[i] < nsigma * MadScale100 * mad2]

\* mutant: the tolerance is dropped from the loop test
LoopContinues_NoTol(d) == d.n >= 0

\* while delta > 1.e-3
LoopContinues(d) == FracGt(d, Tol)

\* mutant: the loop never gives up, however few points the clip leaves
TooFew_Never(mask) == FALSE

\* if sum(flag) < 2
TooFew(mask) == CountTrue(mask) < MinPoints

\* lines 311-363: the zeroth polyfit and the loop's initial values
FitzpBegin ==
    /\ pc = "fitzp"
    /\ calls' = Append(calls, "fitzp")
    /\ IF CountTrue(fitflag) = 0
         THEN \* np.polyfit of empty arrays: TypeError
              /\ pc' = "crash"
              /\ UNCHANGED loopvars
         ELSE /\ bestc' = <<0, Frac(0, 1)>>
              /\ delta' = Frac(DeltaInit, 1)
              /\ x' = MaskSelect(R, fitflag)
              /\ y' = MaskSelect([i \in DOMAIN matchedarray1 |->
                                     matchedarray1[i].MAG_APER], fitflag)
              /\ yerr' = MaskSelect([i \in DOMAIN matchedarray1 |->
                                        matchedarray1[i].MAGERR_APER], fitflag)
              /\ flag' = fitflag
              /\ pc' = "fitzp_loop"
              /\ UNCHANGED <<t, fits>>
    /\ UNCHANGED <<inputs, fs, image, sevars, panvars, matchvars, resvars, cutvars>>

\* lines 364-395: one pass of `while delta > 1.e-3`
FitzpIterate ==
    /\ pc = "fitzp_loop"
    /\ LoopContinues(delta)
    /\ LET fit      == CurveFit(x, y, yerr)
           c        == FitCoeffs(fit)
           residual == Residual(c, x, y)
           newflag  == ClipMask(residual, args.nsigma)
       IN /\ t' = fit
          /\ fits' = Append(fits, fit)
          /\ delta' = FracAbsDiff(bestc[2], c[2])
          /\ bestc' = c
          /\ flag' = newflag
          /\ IF TooFew(newflag)
               THEN \* sys.exit()
                    /\ pc' = "exit"
                    /\ UNCHANGED <<x, y, yerr>>
               ELSE /\ x' = MaskSelect(x, newflag)
                    /\ y' = MaskSelect(y, newflag)
                    /\ yerr' = MaskSelect(yerr, newflag)
                    /\ pc' = "fitzp_loop"
    /\ UNCHANGED <<inputs, calls, fs, image, sevars, panvars, matchvars, resvars, cutvars>>

\* lines 396-433: the loop has ended; record the result
FitzpEnd ==
    /\ pc = "fitzp_loop"
    /\ ~LoopContinues(delta)
    /\ zperr' = SqrtCov(t.pcov)
    /\ zp' = bestc[2]
    /\ pc' = AfterStage("fitzp")
    /\ UNCHANGED <<inputs, calls, fs, image, sevars, panvars, matchvars, loopvars,
                   out, cutvars>>

(***************************************************************************)
(* getzp.update_header and the last line of __main__                       *)
(***************************************************************************)
\* float('{:.3f}'.format(v)): v to the nearest milli-magnitude, ties to even
RoundFrac(f) ==
    LET q == f.n \div f.d
        r == f.n - q * f.d
    IN IF 2 * r < f.d THEN q
       ELSE IF 2 * r > f.d THEN q + 1
       ELSE IF q % 2 = 0 THEN q ELSE q + 1

\* mutant: the intercept itself is written, not its negative
PhotZP_NotNegated(c, filter) ==
    IF filter = "R" THEN RoundFrac(Frac(VegaToAB * c[2].d + c[2].n, c[2].d))
    ELSE RoundFrac(Frac(c[2].n, c[2].d))

PhotZP(c, filter) ==
    IF filter = "R" THEN RoundFrac(Frac(VegaToAB * c[2].d - c[2].n, c[2].d))
    ELSE RoundFrac(Frac(-c[2].n, c[2].d))

NewHeader(header, c, filter) ==
    [k \in HeaderKeys |->
        CASE k = "PHOTZP"   -> Some(PhotZP(c, filter))
          [] k = "LAMB(um)" -> IF filter = "R" THEN Some(LambUm) ELSE header[k]
          [] k = "PHOTSYS"  -> Some("AB")
          [] k = "FLUXZPJY" -> Some(FluxZpJy)
          [] OTHER          -> header[k]]

UpdateHeader ==
    /\ pc = "update_header"
    /\ calls' = Append(calls, "update_header")
    /\ LET f == fs[image]
       IN fs' = WriteTo(fs, image, f.data, NewHeader(f.header, bestc, args.filter))
    /\ pc' = AfterStage("update_header")
    /\ UNCHANGED <<inputs, image, sevars, panvars, matchvars, loopvars, resvars, cutvars>>

\* print('ZP = {:.3f} +/- {:.3f}'.format(-1*zp.zp,zp.zperr))
PrintZP ==
    /\ pc = "print"
    /\ out' = [zp |-> RoundFrac(Frac(-zp.n, zp.d)), zperr |-> zperr]
    /\ pc' = "done"
    /\ UNCHANGED <<inputs, calls, fs, image, sevars, panvars, matchvars, loopvars,
                   zp, zperr, cutvars>>

Next ==
    \/ Construct
    \/ RunSE
    \/ GetPanstarrs
    \/ MatchCoords
    \/ FitzpBegin
    \/ FitzpIterate
    \/ FitzpEnd
    \/ UpdateHeader
    \/ PrintZP

Spec == Init /\ [][Next]_vars

(***************************************************************************)
(* Properties of the ZP tool                                               *)
(***************************************************************************)
StageOrder == <<"runse", "get_panstarrs", "match_coords", "fitzp", "update_header">>

\* some FITS image on disk carries the PHOTZP keyword
HeaderWritten ==
    \E n \in DOMAIN fs : fs[n].kind = "image" /\ fs[n].header["PHOTZP"] # Nil

\* fitzp has returned normally (self.zp is assigned on its last lines)
FitzpReturned == zp # Nil

\* the clipping loop has been entered
InLoop == pc \in {"fitzp_loop", "exit", "update_header", "print", "done"}

\* the number N of points selected for the fit
NSelected == CountTrue(fitflag)

\* C1: one call of getzp() invokes the five stages in the fixed order, none
\* twice and none out of turn (the calls made so far are always a prefix of
\* the order); a call that returns has made all five; and PHOTZP is in a
\* header only once fitzp has returned normally.
C1_StagesOnceInOrder ==
    /\ \E k \in 0..Len(StageOrder) : calls = SubSeq(StageOrder, 1, k)
    /\ (pc \in {"print", "done"} => calls = StageOrder)
    /\ (HeaderWritten => FitzpReturned /\ calls = StageOrder)

C1_Witness == pc = "done" /\ calls = StageOrder /\ HeaderWritten

\* the intercept bestc[1] held before the k-th fit: the previous fit's, or
\* the initial 0
InterceptBefore(k) == IF k = 1 THEN Frac(0, 1) ELSE fits[k - 1].popt

C3_Original ==
    pc = "done" =>
        /\ fs[args.image].header["PHOTZP"] # Nil
        /\ {n \in DOMAIN fs : fs[n].kind = "image"} = {args.image}

\* C3 amended: after a successful run PHOTZP is in the header of self.image.
\* With norm_exptime True that is the input image and no other image file
\* exists; with norm_exptime False it is the copy 'n'+image that __init__
\* wrote, and the input image is exactly as it was.
C3_PhotzpInWorkImage ==
    pc = "done" =>
        /\ fs[image].header["PHOTZP"] # Nil
        /\ IF args.nexptime
             THEN /\ image = args.image
                  /\ {n \in DOMAIN fs : fs[n].kind = "image"} = {args.image}
             ELSE /\ image = <<"n">> \o args.image
                  /\ fs[args.image] = InputImage(world)
                  /\ {n \in DOMAIN fs : fs[n].kind = "image"} =
                        {args.image, <<"n">> \o args.image}

C3_Witness ==
    /\ pc = "done"
    /\ ~args.nexptime
    /\ fs[<<"n">> \o args.image].header["PHOTZP"] # Nil

\* C7 as stated: with --fit, Source Extractor is not run and the Pan-STARRS
\* catalog is not downloaded.
C7_FitOnlySkipsSE ==
    args.fitonly => seCalls = <<>> /\ panCalls = <<>>

\* C9: once a fit has been made, bestc is (1, intercept of the most recent
\* fit); the reported zp and zperr are the intercept and the square root of
\* the covariance of one and the same fit, the last one.
C9_SlopeFixed ==
    /\ (InLoop /\ fits # <<>> =>
          /\ bestc[1] = 1
          /\ bestc[2] = fits[Len(fits)].popt)
    /\ (FitzpReturned =>
          /\ zp = fits[Len(fits)].popt
          /\ zperr = SqrtCov(fits[Len(fits)].pcov)
          /\ bestc = <<1, zp>>)

C9_Witness ==
    /\ pc = "done"
    /\ Len(fits) >= 2
    /\ fits[1].popt # fits[Len(fits)].popt
    /\ bestc[1] = 1

\* C10: from match_coords on, matchflag, fitflag and matchedarray1 have the
\* length of the Pan-STARRS catalog; in the loop x, y and yerr have one
\* length, the clip mask has the length the arrays had when the iteration
\* started, and the arrays an iteration leaves are the masked ones.
C10_ArraysAligned ==
    /\ (matchflag # Nil \/ pc \in {"fitzp"} \/ InLoop =>
          /\ Len(matchflag) = Len(pan)
          /\ Len(fitflag) = Len(pan)
          /\ Len(matchedarray1) = Len(pan)
          /\ Len(R) = Len(pan))
    /\ (InLoop =>
          /\ Len(x) = Len(y)
          /\ Len(y) = Len(yerr)
          /\ (fits = <<>> => Len(flag) = Len(pan) /\ Len(x) = CountTrue(flag))
          /\ (fits # <<>> =>
                /\ Len(flag) = fits[Len(fits)].npts
                /\ (pc # "exit" => Len(x) = CountTrue(flag))
                /\ (pc = "exit" => Len(x) = Len(flag))))

C10_Witness ==
    /\ pc = "done"
    /\ Len(pan) # Len(secat)
    /\ Len(x) < Len(pan)
    /\ \E i \in DOMAIN matchflag : ~matchflag[i]

(***************************************************************************)
(***************************************************************************)
(* The cutout tool: plot_cutouts_ha.py                                     *)
(*                                                                         *)
(* A cached file is named by a key record [dir, galid, survey, band, kind, *)
(* size, tile, tag, gz], one record per distinct path the code builds.     *)
(* Its content is the record of the download that wrote it; the files the  *)
(* cache holds before the first run have serial 0.                         *)
(***************************************************************************)
(***************************************************************************)
MaxRuns == 2    \* most consecutive runs of the tool over one cache

UNWISE_PIXSCALE == 275      \* 2.75, in hundredths
LEGACY_PIXSCALE == 1
CachedImagesMin == 3        \* if len(image_names) > 3
FilesPerBand    == 4        \* len(wnames) > 4*len(bands)

Key(dir, galid, survey, band, kind, size, tile, tag, gz) ==
    [dir |-> dir, galid |-> galid, survey |-> survey, band |-> band,
     kind |-> kind, size |-> size, tile |-> tile, tag |-> tag, gz |-> gz]

\* 'cutouts/'+str(galid)+'-legacy-'+str(imsize)+'.jpg'
LegacyJpeg(galid, imsize) ==
    Key("cutouts", galid, "legacy", "", "jpg", imsize, 0, <<>>, FALSE)
\* 'cutouts/'+str(galid)+'-legacy-'+str(imsize)+'-'+bands+'.fits'
LegacyFits(galid, imsize, bands) ==
    Key("cutouts", galid, "legacy", bands, "fits", imsize, 0, <<>>, FALSE)
\* 'cutouts/'+str(galid)+'-unwise-<tile>-<band>-<kind>-m.fits[.gz]'
UnwiseFile(galid, tile, band, kind, gz) ==
    Key("cutouts", galid, "unwise", band, kind, 0, tile, <<>>, gz)
\* 'galex/'+self.galid+'-'+t[1]+'-nuv.fits'
GalexNuv(galid, tag) ==
    Key("galex", galid, "galex", "nuv", "fits", 0, 0, tag, FALSE)

WiseBands   == <<"w1", "w2", "w3", "w4">>     \* bands='1234'
MemberKinds == <<"img", "invvar", "n", "std">>

\* os.path.exists(name)
Exists(files, name) == name \in DOMAIN files

\* a file written by the n-th request of run r
Fresh(n, r) == [serial |-> n, run |-> r]
Old == [serial |-> 0, run |-> 0]

Put(files, name, content) == (name :> content) @@ files
Remove(files, name) == [k \in DOMAIN files \ {name} |-> files[k]]

Request(svc, what, r) == [svc |-> svc, what |-> what, run |-> r]

\* str.split(sep): the parts of s between the occurrences of sep
RECURSIVE SplitAll(_, _)
SplitAll(s, sep) ==
    LET i == Find(s, sep)
    IN IF i = -1 THEN <<s>>
       ELSE <<SubSeq(s, 1, i)>> \o SplitAll(SubSeq(s, i + Len(sep) + 1, Len(s)), sep)

(***************************************************************************)
(* get_legacy_images                                                       *)
(***************************************************************************)
\* mutant: the cutout is fetched whether or not the file is there
MustDownload_Always(files, name) == TRUE

\* not(os.path.exists(name))
MustDownload(files, name) == ~Exists(files, name)

\* one call: the cache and the request log it leaves, and what it returns
\* (Nil for None, when the image read back is blank)
GetLegacyImages(files, log, rem, galid, imsize, bands, r) ==
    LET jpeg_name == LegacyJpeg(galid, imsize)
        fits_name == LegacyFits(galid, imsize, bands)
        getJ  == MustDownload(files, jpeg_name)
        log1  == IF getJ THEN Append(log, Request("legacy-jpeg", jpeg_name, r))
                 ELSE log
        f1    == IF getJ THEN Put(files, jpeg_name, Fresh(Len(log1), r)) ELSE files
        getF  == MustDownload(f1, fits_name)
        log2  == IF getF THEN Append(log1, Request("legacy-fits", fits_name, r))
                 ELSE log1
        f2    == IF getF THEN Put(f1, fits_name, Fresh(Len(log2), r)) ELSE f1
    IN [cache |-> f2, reqs |-> log2,
        ret |-> IF rem.blank THEN Nil ELSE <<fits_name, jpeg_name>>]

(***************************************************************************)
(* get_unwise_image                                                        *)
(***************************************************************************)
\* glob.glob('cutouts/'+galid+'-unwise*img-m.fits')
GlobUnwise(files, galid) ==
    {k \in DOMAIN files :
        /\ k.dir = "cutouts" /\ k.galid = galid /\ k.survey = "unwise"
        /\ k.kind = "img" /\ ~k.gz}

\* tartemp.getnames(): every band's files of every tile the galaxy falls on
TarMembers(rem) ==
    [n \in 1..(rem.tiles * Len(WiseBands) * Len(MemberKinds)) |->
        LET i == n - 1
            tile == i \div (Len(WiseBands) * Len(MemberKinds)) + 1
            b    == ((i \div Len(MemberKinds)) % Len(WiseBands)) + 1
            k    == (i % Len(MemberKinds)) + 1
        IN [tile |-> tile, band |-> WiseBands[b], kind |-> MemberKinds[k],
            gz |-> MemberKinds[k] # "img"]]

\* lines 142-149 for one member: remove an existing file of that name, move
\* the extracted file there, and gunzip it (gunzip leaves a .gz alone when
\* the unpacked name is taken)
StoreMember(files, galid, m, content) ==
    LET rename   == UnwiseFile(galid, m.tile, m.band, m.kind, m.gz)
        unpacked == UnwiseFile(galid, m.tile, m.band, m.kind, FALSE)
        moved    == Put(IF Exists(files, rename) THEN Remove(files, rename)
                        ELSE files, rename, content)
    IN IF m.gz /\ ~Exists(moved, unpacked)
         THEN Put(Remove(moved, rename), unpacked, content)
         ELSE moved

\* the loop over wnames; each pass's directory is computed (its DOMAIN taken)
\* before the next pass starts, as the loop does
RECURSIVE StoreAll(_, _, _, _)
StoreAll(files, galid, members, content) ==
    IF members = <<>> THEN files
    ELSE LET stored == StoreMember(files, galid, Head(members), content)
         IN IF DOMAIN stored = {} THEN stored
            ELSE StoreAll(stored, galid, Tail(members), content)

GetUnwiseImage(files, log, rem, galid, imsize, r) ==
    LET image_names == GlobUnwise(files, galid)
    IN IF Cardinality(image_names) > CachedImagesMin
         THEN [cache |-> files, reqs |-> log,
               ret |-> [names |-> image_names,
                        multiframe |-> Cardinality(image_names) >
                                         FilesPerBand * Len(WiseBands)]]
         ELSE LET wnames == TarMembers(rem)
                  log1   == Append(log, Request("unwise", <<galid, imsize>>, r))
              IN [cache |-> StoreAll(files, galid, wnames, Fresh(Len(log1), r)),
                  reqs |-> log1,
                  ret |-> [names |-> {UnwiseFile(galid, wnames[i].tile,
                                                 wnames[i].band, wnames[i].kind,
                                                 wnames[i].gz) :
                                        i \in {j \in DOMAIN wnames :
                                                 wnames[j].kind = "img"}},
                           multiframe |-> Len(wnames) >
                                            FilesPerBand * Len(WiseBands)]]

(***************************************************************************)
(* Inputs of the cutout tool: the --r argument, the files next to it, the  *)
(* R image's header and shape, what the services return, and the cache     *)
(* the run starts with.                                                    *)
(***************************************************************************)
Stems == {<<"a">>, <<"v", "-", "1">>, <<"g", "-", "r">>}

RName(stem, sep, letter) == stem \o <<sep, letter>> \o DotFits
HaName(stem, sep) == stem \o <<sep, "H", "a">> \o DotFits
CSName(stem, sep) == stem \o <<sep, "C", "S">> \o DotFits

\* the R image and its two products, the products named with separator psep
Local(stem, rsep, letter, psep) ==
    {RName(stem, rsep, letter), HaName(stem, psep), CSName(stem, psep)}

GalId == "G1"
XSizeArcsec == 55

MkRemote(local, blank, tiles, nuv) ==
    [local |-> local,        \* files in the working directory
     id |-> GalId,           \* header['ID']
     xsize |-> XSizeArcsec,  \* xsize_pix*pscale*3600
     radec |-> "center",     \* wcs_pix2world(xcenter, ycenter, 1)
     blank |-> blank,        \* the legacy FITS cutout is all zero
     tiles |-> tiles,        \* unWISE tiles the galaxy falls on
     nuv |-> nuv]            \* GALEX has an 'nd-int' product there

Remotes(local) ==
    {MkRemote(local, b, n, g) : b \in BOOLEAN, n \in {1, 2}, g \in BOOLEAN}

\* every file a complete first-tile run leaves in the cache for this galaxy
CacheKeys ==
    {LegacyJpeg(GalId, XSizeArcsec)}
      \cup {LegacyFits(GalId, XSizeArcsec, b) : b \in {"g", "r", "z"}}
      \cup {UnwiseFile(GalId, 1, WiseBands[i], "img", FALSE) : i \in DOMAIN WiseBands}
      \cup {GalexNuv(GalId, <<"1">>)}

ZpIdle ==
    /\ args = Nil /\ world = Nil /\ pc = "idle" /\ calls = <<>> /\ fs = <<>>
    /\ image = Nil /\ seCalls = <<>> /\ secat = Nil /\ field = Nil
    /\ panCalls = <<>> /\ pan = Nil /\ index = Nil /\ matchflag = Nil
    /\ matchedarray1 = Nil /\ fitflag = Nil /\ R = Nil
    /\ x = Nil /\ y = Nil /\ yerr = Nil /\ flag = Nil /\ t = Nil
    /\ fits = <<>> /\ bestc = Nil /\ delta = Nil
    /\ zp = Nil /\ zperr = Nil /\ out = Nil

InitCutInputs ==
    \/ /\ cargs = [r |-> Nil]
       /\ remote = MkRemote({}, FALSE, 1, TRUE)
       /\ cache = <<>>
    \/ \E stem \in Stems, rsep \in {"_", "-"}, letter \in {"R", "r"},
          psep \in {"_", "-"} :
         /\ cargs = [r |-> RName(stem, rsep, letter)]
         /\ remote \in Remotes(Local(stem, rsep, letter, psep))
         /\ cache = <<>>
    \/ /\ cargs = [r |-> RName(<<"v", "-", "1">>, "-", "R")]
       /\ remote \in Remotes(Local(<<"v", "-", "1">>, "-", "R", "-"))
       /\ \E have \in SUBSET CacheKeys : cache = [k \in have |-> Old]

InitCut ==
    /\ ZpIdle
    /\ InitCutInputs
    /\ cpc = "main"
    /\ run = 1
    /\ ccalls = <<>>
    /\ reqs = <<>>
    /\ opened = <<>>
    /\ self = Nil
    /\ figures = {}

(***************************************************************************)
(* class cutouts                                                           *)
(***************************************************************************)
\* the value of split_string after the two if statements of __init__;
\* Nil when none of them assigned it
SplitString(r_name) ==
    IF Find(r_name, <<"-", "R">>) > -1 THEN <<"-", "R">> \o DotFits
    ELSE IF Find(r_name, <<"-", "r">>) > -1 THEN <<"_", "r">> \o DotFits
    ELSE IF Find(r_name, <<"_", "R">>) > -1 THEN <<"_", "R">> \o DotFits
    ELSE Nil

NewCutouts(rimage) ==
    [r_name |-> rimage, rootname |-> SplitHead(rimage, SplitString(rimage)),
     xsize_arcsec |-> Nil, radec |-> Nil, galid |-> Nil,
     legacy_imsize |-> Nil, legacy_filename |-> <<>>, legacy_jpegname |-> Nil,
     wise_imsize |-> Nil, wise_filenames |-> Nil, wise_multiframe_flag |-> Nil,
     nuv_image_name |-> Nil, loaded |-> {}]

\* self.rootname+'-Ha.fits', self.rootname+'-CS.fits'
ProductName(rootname, product) ==
    rootname \o <<"-">> \o product \o DotFits

RunallOrder ==
    <<"get_halpha_cutouts", "get_image_size", "get_RADEC", "get_galid",
      "download_legacy", "load_legacy_images", "download_unwise_images",
      "load_unwise_images", "get_galex_image", "plotallcutouts">>

\* mutant: runall goes from get_galid straight to the unWISE download
CutAfter_SkipsLegacy(step) ==
    IF step = "get_galid" THEN "download_unwise_images"
    ELSE IF step = "plotallcutouts" THEN "done"
    ELSE RunallOrder[(CHOOSE i \in DOMAIN RunallOrder : RunallOrder[i] = step) + 1]

\* the statement of runall that follows step
CutAfter(step) ==
    IF step = "plotallcutouts" THEN "done"
    ELSE RunallOrder[(CHOOSE i \in DOMAIN RunallOrder : RunallOrder[i] = step) + 1]

cutzp == <<zpvars, cargs, remote>>

\* __main__ and cutouts.__init__
CutMain ==
    /\ cpc = "main"
    /\ IF cargs.r = Nil
         THEN cpc' = "exit" /\ UNCHANGED <<self, opened>>
       ELSE IF cargs.r \notin remote.local
         THEN cpc' = "crash" /\ opened' = Append(opened, cargs.r)
              /\ UNCHANGED self
       ELSE IF SplitString(cargs.r) = Nil
         THEN cpc' = "crash" /\ opened' = Append(opened, cargs.r)
              /\ UNCHANGED self
       ELSE /\ cpc' = "get_halpha_cutouts"
            /\ opened' = Append(opened, cargs.r)
            /\ self' = NewCutouts(cargs.r)
    /\ UNCHANGED <<cutzp, run, ccalls, cache, reqs, figures>>

\* the files fits.getdata is called on, up to the first that is missing
RECURSIVE ReadUntilMissing(_, _)
ReadUntilMissing(names, local) ==
    IF names = <<>> THEN <<>>
    ELSE IF Head(names) \notin local THEN <<Head(names)>>
    ELSE <<Head(names)>> \o ReadUntilMissing(Tail(names), local)

GetHalphaCutouts ==
    /\ cpc = "get_halpha_cutouts"
    /\ LET names == <<self.r_name, ProductName(self.rootname, <<"H", "a">>),
                      ProductName(self.rootname, <<"C", "S">>)>>
           read  == ReadUntilMissing(names, remote.local)
       IN /\ opened' = opened \o read
          /\ cpc' = IF \A i \in DOMAIN names : names[i] \in remote.local
                      THEN CutAfter("get_halpha_cutouts") ELSE "crash"
    /\ ccalls' = Append(ccalls, "get_halpha_cutouts")
    /\ UNCHANGED <<cutzp, run, cache, reqs, self, figures>>

GetImageSize ==
    /\ cpc = "get_image_size"
    /\ self' = [self EXCEPT !.xsize_arcsec = remote.xsize]
    /\ ccalls' = Append(ccalls, "get_image_size")
    /\ cpc' = CutAfter("get_image_size")
    /\ UNCHANGED <<cutzp, run, cache, reqs, opened, figures>>

GetRADEC ==
    /\ cpc = "get_RADEC"
    /\ self' = [self EXCEPT !.radec = remote.radec]
    /\ ccalls' = Append(ccalls, "get_RADEC")
    /\ cpc' = CutAfter("get_RADEC")
    /\ UNCHANGED <<cutzp, run, cache, reqs, opened, figures>>

GetGalid ==
    /\ cpc = "get_galid"
    /\ self' = [self EXCEPT !.galid = remote.id]
    /\ ccalls' = Append(ccalls, "get_galid")
    /\ cpc' = CutAfter("get_galid")
    /\ UNCHANGED <<cutzp, run, cache, reqs, opened, figures>>

LegacyBands == <<"g", "r", "z">>
LegacyPc == <<"download_legacy", "download_legacy:r", "download_legacy:z">>

\* download_legacy, one step for each of its three get_legacy_images calls
DownloadLegacy ==
    \E i \in DOMAIN LegacyBands :
      /\ cpc = LegacyPc[i]
      /\ LET imsize == self.xsize_arcsec \div LEGACY_PIXSCALE
             got == GetLegacyImages(cache, reqs, remote, self.galid, imsize,
                                    LegacyBands[i], run)
         IN /\ cache' = got.cache
            /\ reqs' = got.reqs
            /\ IF got.ret = Nil
                 THEN /\ cpc' = "crash"
                      /\ self' = [self EXCEPT !.legacy_imsize = imsize]
                 ELSE /\ cpc' = IF i < Len(LegacyBands) THEN LegacyPc[i + 1]
                                ELSE CutAfter("download_legacy")
                      /\ self' = [self EXCEPT
                                    !.legacy_imsize = imsize,
                                    !.legacy_filename = Append(@, got.ret[1]),
                                    !.legacy_jpegname = got.ret[2]]
      /\ ccalls' = IF i = 1 THEN Append(ccalls, "download_legacy") ELSE ccalls
      /\ UNCHANGED <<cutzp, run, opened, figures>>

LoadLegacyImages ==
    /\ cpc = "load_legacy_images"
    /\ ccalls' = Append(ccalls, "load_legacy_images")
    /\ IF \A i \in DOMAIN self.legacy_filename :
            Exists(cache, self.legacy_filename[i])
         THEN /\ cpc' = CutAfter("load_legacy_images")
              /\ self' = [self EXCEPT !.loaded = @ \cup {"g", "r", "z"}]
         ELSE cpc' = "crash" /\ UNCHANGED self
    /\ UNCHANGED <<cutzp, run, cache, reqs, opened, figures>>

DownloadUnwiseImages ==
    /\ cpc = "download_unwise_images"
    /\ LET imsize == (100 * self.xsize_arcsec) \div UNWISE_PIXSCALE
           got == GetUnwiseImage(cache, reqs, remote, self.galid, imsize, run)
       IN /\ cache' = got.cache
          /\ reqs' = got.reqs
          /\ self' = [self EXCEPT !.wise_imsize = imsize,
                                  !.wise_filenames = got.ret.names,
                                  !.wise_multiframe_flag = got.ret.multiframe]
    /\ ccalls' = Append(ccalls, "download_unwise_images")
    /\ cpc' = CutAfter("download_unwise_images")
    /\ UNCHANGED <<cutzp, run, opened, figures>>

LoadUnwiseImages ==
    /\ cpc = "load_unwise_images"
    /\ ccalls' = Append(ccalls, "load_unwise_images")
    /\ self' = [self EXCEPT !.loaded = @ \cup {f.band : f \in self.wise_filenames}]
    /\ cpc' = CutAfter("load_unwise_images")
    /\ UNCHANGED <<cutzp, run, cache, reqs, opened, figures>>

\* cutouts.get_galex_image, with the module's get_galex_image it calls
GetGalexImage ==
    /\ cpc = "get_galex_image"
    /\ ccalls' = Append(ccalls, "get_galex_image")
    /\ LET parts == SplitAll(self.rootname, <<"-">>)
       IN IF Len(parts) < 2
            THEN cpc' = "crash" /\ UNCHANGED <<self, cache, reqs>>
          ELSE LET name == GalexNuv(self.galid, parts[2])
                   log1 == Append(reqs, Request("galex", name, run))
               IN IF Exists(cache, name)
                    THEN /\ self' = [self EXCEPT !.nuv_image_name = name,
                                                 !.loaded = @ \cup {"nuv"}]
                         /\ cpc' = CutAfter("get_galex_image")
                         /\ UNCHANGED <<cache, reqs>>
                  ELSE IF ~remote.nuv
                    THEN /\ self' = [self EXCEPT !.nuv_image_name = name]
                         /\ reqs' = log1
                         /\ cpc' = "crash"
                         /\ UNCHANGED cache
                  ELSE /\ self' = [self EXCEPT !.nuv_image_name = name,
                                               !.loaded = @ \cup {"nuv"}]
                       /\ reqs' = log1
                       /\ cache' = Put(cache, name, Fresh(Len(log1), run))
                       /\ cpc' = CutAfter("get_galex_image")
    /\ UNCHANGED <<cutzp, run, opened, figures>>

Panels == {"g", "r", "z", "w1", "w2", "w3", "w4", "nuv"}

PlotAllCutouts ==
    /\ cpc = "plotallcutouts"
    /\ ccalls' = Append(ccalls, "plotallcutouts")
    /\ IF Panels \subseteq self.loaded
         THEN /\ figures' = figures \cup
                    {[root |-> self.rootname, ext |-> e, run |-> run] :
                        e \in {"png", "pdf"}}
              /\ cpc' = CutAfter("plotallcutouts")
         ELSE cpc' = "crash" /\ UNCHANGED figures
    /\ UNCHANGED <<cutzp, run, cache, reqs, opened, self>>

\* the tool is started again on the same arguments and cache
NextRun ==
    /\ cpc \in {"done", "crash", "exit"}
    /\ run < MaxRuns
    /\ run' = run + 1
    /\ cpc' = "main"
    /\ ccalls' = <<>>
    /\ opened' = <<>>
    /\ self' = Nil
    /\ UNCHANGED <<cutzp, cache, reqs, figures>>

NextCut ==
    \/ CutMain
    \/ GetHalphaCutouts
    \/ GetImageSize
    \/ GetRADEC
    \/ GetGalid
    \/ DownloadLegacy
    \/ LoadLegacyImages
    \/ DownloadUnwiseImages
    \/ LoadUnwiseImages
    \/ GetGalexImage
    \/ PlotAllCutouts
    \/ NextRun

SpecCut == InitCut /\ [][NextCut]_vars

(***************************************************************************)
(* Properties of the cutout tool                                           *)
(***************************************************************************)
LegacyCallPending == \E i \in DOMAIN LegacyPc : cpc = LegacyPc[i]
PendingBand == LegacyBands[CHOOSE i \in DOMAIN LegacyPc : cpc = LegacyPc[i]]

\* the step issues a request for the file
Requested(name) ==
    \E i \in (Len(reqs) + 1)..Len(reqs') : reqs'[i].what = name

\* every file of the cache is still there after the step, with its content
CacheKept ==
    \A k \in DOMAIN cache : Exists(cache', k) /\ cache'[k] = cache[k]

IsLegacy(k) == k.survey = "legacy"

\* C4: a get_legacy_images call requests the JPEG (the FITS) cutout exactly
\* when no file exists at its keyed path when the call is made, and leaves
\* every file that exists unchanged
C4_LegacyDownloadIffAbsent ==
    [][LegacyCallPending =>
         LET imsize == self.xsize_arcsec \div LEGACY_PIXSCALE
             jpeg_name == LegacyJpeg(self.galid, imsize)
             fits_name == LegacyFits(self.galid, imsize, PendingBand)
         IN /\ Requested(jpeg_name) <=> ~Exists(cache, jpeg_name)
            /\ Requested(fits_name) <=> ~Exists(cache, fits_name)
            /\ Len(reqs') - Len(reqs) =
                 Cardinality({jpeg_name, fits_name} \ DOMAIN cache)
            /\ CacheKept]_vars

\* the three calls have been made over a cache that held some of the legacy
\* files and lacked others: the ones it held are as they were, the others
\* were downloaded once each
C4_Witness ==
    /\ cpc = "load_legacy_images"
    /\ \E k \in DOMAIN cache : IsLegacy(k) /\ cache[k] = Old
    /\ \E k \in DOMAIN cache : IsLegacy(k) /\ cache[k].run = run
    /\ \A i, j \in DOMAIN reqs : reqs[i].what = reqs[j].what => i = j

\* C5: no step of the cutout tool deletes or overwrites a file that is
\* already in cutouts/ or galex/
C5_NoEviction == [][CacheKept]_vars

IsPrefix(a, b) == Len(a) <= Len(b) /\ \A i \in DOMAIN a : a[i] = b[i]
InRun(q) == q.run = run
RunReqs == SelectSeq(reqs, InRun)
Called(step) == \E i \in DOMAIN ccalls : ccalls[i] = step
SurveyRank(q) ==
    IF q.svc \in {"legacy-jpeg", "legacy-fits"} THEN 1
    ELSE IF q.svc = "unwise" THEN 2 ELSE 3
RunFigures == {f \in figures : f.run = run}

\* C6: the steps of runall are entered in its order, each at most once, and
\* all ten once the call returns; the local images are read before anything
\* else, no request is issued before the position and the galaxy id are
\* known, the requests of a run go Legacy, unWISE, GALEX, and the figure is
\* written only after all three surveys are loaded
C6_RunallSequential ==
    /\ IsPrefix(ccalls, RunallOrder)
    /\ Len(ccalls) >= 2 =>
         /\ Len(opened) = 4
         /\ \A i \in DOMAIN opened : opened[i] \in remote.local
    /\ RunReqs # <<>> => Called("get_RADEC") /\ Called("get_galid")
    /\ \A i, j \in DOMAIN RunReqs :
         i < j => SurveyRank(RunReqs[i]) <= SurveyRank(RunReqs[j])
    /\ Called("download_unwise_images") => Called("load_legacy_images")
    /\ Called("get_galex_image") => Called("load_unwise_images")
    /\ RunFigures # {} => ccalls = RunallOrder /\ Panels \subseteq self.loaded
    /\ cpc = "done" => ccalls = RunallOrder /\ RunFigures # {}

\* a run that returned after fetching from all three surveys
C6_Witness ==
    /\ cpc = "done"
    /\ \A n \in 1..3 : \E i \in DOMAIN RunReqs : SurveyRank(RunReqs[i]) = n
    /\ RunFigures # {}

Suffix_R == <<"_", "R">> \o DotFits
IsDocName(r) ==
    /\ r # Nil
    /\ Len(r) > Len(Suffix_R)
    /\ SubSeq(r, Len(r) - Len(Suffix_R) + 1, Len(r)) = Suffix_R
DocRoot(r) == SubSeq(r, 1, Len(r) - Len(Suffix_R))

\* C8: for --r <root>_R.fits, the H-alpha and continuum-subtracted images
\* the tool opens are <root>_Ha.fits and <root>_CS.fits
C8_ReadsUnderscoreProducts ==
    (IsDocName(cargs.r) /\ Called("get_halpha_cutouts")) =>
        /\ Len(opened) >= 3 /\ opened[3] = HaName(DocRoot(cargs.r), "_")
        /\ Len(opened) >= 4 => opened[4] = CSName(DocRoot(cargs.r), "_")

(***************************************************************************)
(* Further properties of the ZP tool                                       *)
(***************************************************************************)
\* the intercept of the last fit, and its negative
LastIntercept == fits[Len(fits)].popt
Negated(f) == Frac(-f.n, f.d)

\* C11: once update_header has run, PHOTZP in the header of self.image is
\* minus the intercept of the last fit, rounded to 3 decimals, plus 0.21 when
\* the filter is 'R'; PHOTSYS is 'AB' and FLUXZPJY is 3631; and the ZP that
\* __main__ prints is minus that intercept (to 3 decimals), without the 0.21.
C11_PhotzpIsMinusIntercept ==
    /\ (pc \in {"print", "done"} =>
          /\ fs[image].header["PHOTZP"] =
               Some(RoundFrac(Negated(LastIntercept)) +
                    (IF args.filter = "R" THEN 210 ELSE 0))
          /\ fs[image].header["PHOTSYS"] = Some("AB")
          /\ fs[image].header["FLUXZPJY"] = Some(3631))
    /\ (pc = "done" => out.zp = RoundFrac(Negated(LastIntercept)))

\* a run with filter 'R' whose intercept is not a whole number of
\* milli-magnitudes and not zero
C11_Witness ==
    /\ pc = "done"
    /\ args.filter = "R"
    /\ LastIntercept.n % LastIntercept.d # 0
    /\ out.zp # 0
    /\ fs[image].header["PHOTZP"] = Some(out.zp + 210)

\* the saturation level in ADU that the module's notes give (40000./exptime)
NotesSaturADU == 40000

\* C12 as stated: for an image in ADU/s (norm_exptime True) every Source
\* Extractor command of the run carries SATUR_LEVEL = 40000/EXPTIME, with
\* EXPTIME the value in the image header.
C12_SaturLevel40000 ==
    args # Nil /\ args.nexptime =>
        \A i \in DOMAIN seCalls :
            seCalls[i].satur = NotesSaturADU \div fs[image].header["EXPTIME"][1]

\* the magnitude range the comment above the selection names: 14 < r < 17
CommentRmagLow  == 14000
CommentRmagHigh == 17000

\* C13 as stated: every source selected for the fit has no Source Extractor
\* FLAGS set (so is not saturated), is classified as a star, and has a
\* Pan-STARRS r magnitude with 14 < r < 17.
C13_SelectedAreCleanStars ==
    fitflag # Nil =>
        \A i \in DOMAIN fitflag :
            fitflag[i] =>
                /\ matchedarray1[i].FLAGS = 0
                /\ matchedarray1[i].CLASS_STAR > ClassStarMin
                /\ pan[i].rmag > CommentRmagLow
                /\ pan[i].rmag < CommentRmagHigh

\* the distance, in arcsec, from a Pan-STARRS source to the detection
\* closest to it
MinSep(p) == MinOf({Sep(p.pos, secat[j].pos) : j \in DOMAIN secat})

\* C14: from match_coords on, a source is flagged as matched exactly when its
\* nearest detection is less than 5 arcsec away, and index names such a
\* nearest detection; a selected source is matched and, for instrument 'i',
\* its detection lies strictly inside 1000 < X < 5000, 0 < Y < 4000; a
\* source with no detection within 5 arcsec has an all-zero row in
\* matchedarray1 and is not selected.
C14_OnlyCloseMatchesFitted ==
    fitflag # Nil =>
        \A i \in DOMAIN pan :
            /\ Sep(pan[i].pos, secat[index[i]].pos) = MinSep(pan[i])
            /\ matchflag[i] <=> MinSep(pan[i]) < MatchRadius
            /\ fitflag[i] => matchflag[i] /\ matchedarray1[i] = secat[index[i]]
            /\ (fitflag[i] /\ args.instrument = "i") =>
                  /\ secat[index[i]].X_IMAGE > KeepX0
                  /\ secat[index[i]].X_IMAGE < KeepX1
                  /\ secat[index[i]].Y_IMAGE > KeepY0
                  /\ secat[index[i]].Y_IMAGE < KeepY1
            /\ MinSep(pan[i]) >= MatchRadius =>
                  matchedarray1[i] = ZeroDet /\ ~fitflag[i]

\* a run for instrument 'i' with one source selected, one matched but left
\* out only because its detection is outside the keep section, and one with
\* no detection within 5 arcsec
C14_Witness ==
    /\ fitflag # Nil
    /\ args.instrument = "i"
    /\ \E i \in DOMAIN pan : fitflag[i]
    /\ \E i \in DOMAIN pan :
          /\ matchflag[i] /\ ~fitflag[i]
          /\ FitFlag(pan, matchedarray1, matchflag, "h")[i]
    /\ \E i \in DOMAIN pan : ~matchflag[i] /\ matchedarray1[i] = ZeroDet

\* C15: whenever a clip of the loop leaves fewer than 2 points the run has
\* ended there, by sys.exit inside fitzp; in that end state update_header
\* has not been called, nothing was printed, and the image the tool works on
\* has the header of the input image and no PHOTZP, the input file itself
\* being untouched.
C15_ExitLeavesHeader ==
    /\ (InLoop /\ fits # <<>> /\ CountTrue(flag) < 2 => pc = "exit")
    /\ (pc = "exit" =>
          /\ CountTrue(flag) < 2
          /\ calls = SubSeq(StageOrder, 1, 4)
          /\ zp = Nil /\ out = Nil
          /\ ~HeaderWritten
          /\ fs[args.image] = InputImage(world)
          /\ fs[image].header = InputImage(world).header
          /\ fs[image].kind = "image")

\* the exit taken with two or more points in the fit whose MAD is 0, so that
\* the strict comparison rejects every one of them
C15_Witness ==
    /\ pc = "exit"
    /\ Len(x) >= 2
    /\ CountTrue(flag) = 0

\* runse has returned
RunseDone == secat # Nil

\* the catalog file <froot>.cat
CatFile == fs[SplitHead(image, DotFits) \o DotCat]

C17_MatchOneToOne ==
    fitflag # Nil =>
        \A i, j \in DOMAIN pan :
            (fitflag[i] /\ fitflag[j] /\ index[i] = index[j]) => i = j

====
